---- MODULE Spec2Model ----
(***************************************************************************)
(* A model of the a11y-axe MCP server (src/src/server.ts): the five scan   *)
(* tool handlers (scan_url, scan_html, scan_batch, scan_file,              *)
(* scan_with_login) with their browser and page lifecycles, the            *)
(* summarize_results handler, and the pure helpers tagsFor,                *)
(* wcagScFromTags and wcagLinks.                                           *)
(*                                                                         *)
(* Strings the code transforms character by character are sequences of    *)
(* one-character strings; an absent (undefined) value is Absent.           *)
(***************************************************************************)
EXTENDS Integers, Sequences, FiniteSets, TLC

VARIABLES
    req,        \* per call: the tool request (tool name and arguments)
    pc,         \* per call: the handler's position (its next await)
    browser,    \* per call: the handler's local `browser` (index in browsers, 0 = none)
    page,       \* per call: the handler's local `page` (index in pages, 0 = none)
    idx,        \* per call: scan_batch's position in args.urls
    out,        \* per call: scan_batch's accumulator `out`
    pending,    \* per call: the completion of the try block awaiting the finally
    response,   \* per call: what the caller receives
    browsers,   \* every browser process launched so far
    pages,      \* every page opened so far
    log,        \* per call: the awaited steps completed so far, with their outcome
    fn,         \* the pure function or synchronous handler applied
    arg,        \* its argument
    ret         \* its return value

vars == <<req, pc, browser, page, idx, out, pending, response, browsers, pages, log, fn, arg, ret>>

scanVars == <<req, pc, browser, page, idx, out, pending, response, browsers, pages, log>>

fnVars == <<fn, arg, ret>>

----------------------------------------------------------------------------
(* Bounds of the model *)

MaxUrls == 2

MaxExtra == 2

MaxTags == 2

MaxViolations == 3

----------------------------------------------------------------------------
(* Values *)

\* An optional value is a sequence of at most one element: undefined is the
\* empty one.
Absent == <<>>

Some(v) == <<v>>

Opt(S) == {Absent} \cup {Some(v) : v \in S}

NotRun == <<>>

Range(s) == {s[i] : i \in 1..Len(s)}

SeqsUpTo(S, n) == UNION {[1..k -> S] : k \in 0..n}

----------------------------------------------------------------------------
(* Characters and String.prototype.toLowerCase *)

UpperChars == <<"A","B","C","D","E","F","G","H","I","J","K","L","M",
                "N","O","P","Q","R","S","T","U","V","W","X","Y","Z">>

LowerChars == <<"a","b","c","d","e","f","g","h","i","j","k","l","m",
                "n","o","p","q","r","s","t","u","v","w","x","y","z">>

Digits == {"0","1","2","3","4","5","6","7","8","9"}

ToLowerChar(ch) ==
    IF \E i \in 1..Len(UpperChars) : UpperChars[i] = ch
    THEN LowerChars[CHOOSE i \in 1..Len(UpperChars) : UpperChars[i] = ch]
    ELSE ch

toLowerCase(s) == [i \in 1..Len(s) |-> ToLowerChar(s[i])]

----------------------------------------------------------------------------
(* tagsFor, server.ts:9-14 *)

wcag22 == <<"w","c","a","g","2","2">>

wcag21 == <<"w","c","a","g","2","1">>

LevelA == <<"A">>

LevelAA == <<"A","A">>

LevelAAA == <<"A","A","A">>

Rulesets == {wcag22, wcag21}

Levels == {LevelA, LevelAA, LevelAAA}

\* String literals used as inputs and expected outputs
Str_wcag20 == <<"w","c","a","g","2","0">>

Str_aa == <<"a","a">>

Str_wcag143 == <<"w","c","a","g","1","4","3">>

Str_wcag211 == <<"w","c","a","g","2","1","1">>

Str_WCAG143 == <<"W","C","A","G","1","4","3">>

Str_Wcag412 == <<"W","c","a","g","4","1","2">>

Str_wcag2aa == <<"w","c","a","g","2","a","a">>

Str_wcag14 == <<"w","c","a","g","1","4">>

Str_wcag1433 == <<"w","c","a","g","1","4","3","3">>

Str_xwcag143 == <<"x","w","c","a","g","1","4","3">>

Str_foo == <<"f","o","o">>

Str_ACT == <<"A","C","T">>

Str_wcag22aa == <<"w","c","a","g","2","2","a","a">>

Str_wcag22a == <<"w","c","a","g","2","2","a">>

Str_wcag22aaa == <<"w","c","a","g","2","2","a","a","a">>

Str_wcag21a == <<"w","c","a","g","2","1","a">>

Str_wcag21aa == <<"w","c","a","g","2","1","a","a">>

Str_wcag21aaa == <<"w","c","a","g","2","1","a","a","a">>

\* opts?.x ?? d
OrDefault(x, d) == IF x = Absent THEN d ELSE x[1]

\* opts?.f
OptField(opts, f) == IF opts = Absent THEN Absent ELSE opts[1][f]

tagsFor_NoLowerCase(opts) ==
    LET r == OrDefault(OptField(opts, "ruleset"), wcag22)
        lvl == OrDefault(OptField(opts, "level"), LevelAA)
        base == <<r \o lvl>>
    IN base \o OrDefault(OptField(opts, "extra"), <<>>)

tagsFor(opts) ==
    LET r == OrDefault(OptField(opts, "ruleset"), wcag22)
        lvl == OrDefault(OptField(opts, "level"), LevelAA)
        base == <<toLowerCase(r) \o toLowerCase(lvl)>>
    IN base \o OrDefault(OptField(opts, "extra"), <<>>)

----------------------------------------------------------------------------
(* wcagScFromTags, server.ts:17-21 *)

wcagPrefix == <<"w","c","a","g">>

\* /^wcag\d{3}$/i.test(t)
IsWcagScTag(t) ==
    /\ Len(t) = 7
    /\ toLowerCase(SubSeq(t, 1, 4)) = wcagPrefix
    /\ \A i \in 5..7 : t[i] \in Digits

\* t.replace(/^wcag/, ""): the pattern has no i flag
StripWcag(t) ==
    IF Len(t) >= 4 /\ SubSeq(t, 1, 4) = wcagPrefix
    THEN SubSeq(t, 5, Len(t))
    ELSE t

\* s.split("").join(".")
SplitJoinDot(s) ==
    IF s = <<>> THEN <<>>
    ELSE [i \in 1..(2 * Len(s) - 1) |-> IF i % 2 = 1 THEN s[(i + 1) \div 2] ELSE "."]

\* s.replace(/\.(\d)(\d)$/, ".$1.$2")
SplitLastTwoDigits(s) ==
    LET n == Len(s) IN
    IF n >= 3 /\ s[n - 2] = "." /\ s[n - 1] \in Digits /\ s[n] \in Digits
    THEN SubSeq(s, 1, n - 3) \o <<".", s[n - 1], ".", s[n]>>
    ELSE s

ScFromTag(t) == SplitLastTwoDigits(SplitJoinDot(StripWcag(t)))

wcagScFromTags(tags) ==
    LET kept == SelectSeq(tags, IsWcagScTag)
    IN [i \in 1..Len(kept) |-> ScFromTag(kept[i])]

----------------------------------------------------------------------------
(* wcagLinks, server.ts:24-32.  The fixed text of a template literal is kept
   as one element of the string; sc is a sequence of characters. *)

\* sc.replaceAll(".", "")
NotDot(ch) == ch # "."

RemoveDots_FirstOnly(sc) ==
    IF \E i \in 1..Len(sc) : sc[i] = "."
    THEN LET i == CHOOSE k \in 1..Len(sc) : sc[k] = "." /\ \A j \in 1..(k - 1) : sc[j] # "."
         IN SubSeq(sc, 1, i - 1) \o SubSeq(sc, i + 1, Len(sc))
    ELSE sc

RemoveDots(sc) == SelectSeq(sc, NotDot)

\* prefer === "wcag22" ? "WCAG22" : "WCAG21", prefer defaulting to "wcag22"
SpecName(prefer) == IF OrDefault(prefer, wcag22) = wcag22 THEN "WCAG22" ELSE "WCAG21"

wcagLinks(sc, prefer) ==
    LET spec == SpecName(prefer) IN
    [spec |-> <<"https://www.w3.org/TR/", spec, "/">>,
     quickref |-> <<"https://www.w3.org/WAI/", spec, "/quickref/#">> \o RemoveDots(sc),
     understanding |-> <<"https://www.w3.org/WAI/", spec, "/Understanding/">>]

----------------------------------------------------------------------------
(* summarize_results handler, server.ts:215-237 *)

\* What JSON.parse(args.results) yields: shape "unparsable" (JSON.parse throws),
\* "null" (a value with no properties to read) or "object", whose violations
\* property is absent or a sequence of violation records.
Payload(shape, violations) == [shape |-> shape, violations |-> violations]

\* v.impact === "critical" || v.impact === "serious"
IsTopIssue_CriticalOnly(v) == v.impact = Some("critical")

IsTopIssue(v) == v.impact = Some("critical") \/ v.impact = Some("serious")

\* violations.length in `Found ${violations.length} total violations.`
TotalCount_TopOnly(violations) == Len(SelectSeq(violations, IsTopIssue))

TotalCount(violations) == Len(violations)

\* The five lines the forEach callback appends for one issue.
IssueLines(issue) ==
    [help |-> issue.help,
     impact |-> issue.impact,
     wcag |-> wcagScFromTags(issue.tags[1]),
     nodes |-> issue.nodes[1]]

\* wcagScFromTags(issue.tags) and issue.nodes.length throw a TypeError on undefined
IssueThrows(issue) == issue.tags = Absent \/ issue.nodes = Absent

Thrown(e) == [kind |-> "error", error |-> e]

SummaryText(total, issues, sentinel) ==
    [kind |-> "text", total |-> total, issues |-> issues, sentinel |-> sentinel]

summarize_results(payload) ==
    IF payload.shape = "unparsable" THEN Thrown("SyntaxError")
    ELSE IF payload.shape = "null" \/ payload.violations = Absent THEN Thrown("TypeError")
    ELSE LET violations == payload.violations[1]
             topIssues == SelectSeq(violations, IsTopIssue)
         IN IF topIssues # <<>>
            THEN IF \E i \in 1..Len(topIssues) : IssueThrows(topIssues[i])
                 THEN Thrown("TypeError")
                 ELSE SummaryText(TotalCount(violations),
                                  [i \in 1..Len(topIssues) |-> IssueLines(topIssues[i])],
                                  FALSE)
            ELSE SummaryText(TotalCount(violations), <<>>, TRUE)

----------------------------------------------------------------------------
(* Tool requests and their input schemas *)

CallIds == {1, 2}

ScanTools == {"scan_url", "scan_html", "scan_batch", "scan_file", "scan_with_login"}

NoArgs ==
    [url |-> Absent, html |-> Absent, urls |-> Absent, path |-> Absent,
     loginUrl |-> Absent, username |-> Absent, password |-> Absent,
     usernameSelector |-> Absent, passwordSelector |-> Absent, submitSelector |-> Absent,
     ruleset |-> Absent, level |-> Absent, extraTags |-> Absent]

NoRequest == [tool |-> "none", args |-> NoArgs]

WellFormedUrls == {"https://a.test/", "https://b.test/"}

BadUrl == "not a url"

\* z.string().url()
IsUrl(s) == s \in WellFormedUrls

\* z.string().url().optional(), server.ts:54
OptionalUrlOk(v) == v = Absent \/ IsUrl(v[1])

\* z.string().url(), server.ts:151-152
RequiredUrlOk(v) == v # Absent /\ IsUrl(v[1])

\* z.string(), server.ts:133, 153-157
RequiredStringOk(v) == v # Absent

\* z.array(z.string().url()).min(1), server.ts:100
UrlsOk(v) == v # Absent /\ Len(v[1]) >= 1 /\ \A i \in 1..Len(v[1]) : IsUrl(v[1][i])

\* z.enum(["wcag22", "wcag21"]).optional(), z.enum(["A", "AA", "AAA"]).optional()
RulesetOk(v) == v = Absent \/ v[1] \in Rulesets

LevelOk(v) == v = Absent \/ v[1] \in Levels

\* The input schema each tool is registered with; the server parses the
\* arguments against it before it calls the handler.
SchemaAccepts(tool, a) ==
    /\ RulesetOk(a.ruleset)
    /\ LevelOk(a.level)
    /\ CASE tool = "scan_url" -> OptionalUrlOk(a.url)
         [] tool = "scan_html" -> TRUE
         [] tool = "scan_batch" -> UrlsOk(a.urls)
         [] tool = "scan_file" -> RequiredStringOk(a.path)
         [] tool = "scan_with_login" ->
                /\ RequiredUrlOk(a.url)
                /\ RequiredUrlOk(a.loginUrl)
                /\ RequiredStringOk(a.username)
                /\ RequiredStringOk(a.password)
                /\ RequiredStringOk(a.usernameSelector)
                /\ RequiredStringOk(a.passwordSelector)
                /\ RequiredStringOk(a.submitSelector)

----------------------------------------------------------------------------
(* Browsers, pages and completions *)

Browser(c) == [owner |-> c, open |-> TRUE, closeCalls |-> 0]

\* loaded: the target the last successful goto or setContent put in the page;
\* nav: a navigation the page itself started ("none", "inflight", "finished");
\* listening / navSeen: a waitForNavigation is registered / has seen one finish.
Page(b) ==
    [browser |-> b, open |-> TRUE, closeCalls |-> 0, loaded |-> Absent,
     injected |-> 0, evaluated |-> 0,
     nav |-> "none", listening |-> FALSE, navSeen |-> FALSE]

Returned(v) == [kind |-> "result", value |-> v]

LogEntry(step, ok, p, a) == [step |-> step, ok |-> ok, page |-> p, arg |-> a]

\* The awaited steps of each handler's try block, in program order.
StepsOf_TargetBeforeWait(tool) ==
    CASE tool = "scan_url" -> <<"newPage", "goto", "inject", "evaluate">>
      [] tool = "scan_html" -> <<"newPage", "setContent", "inject", "evaluate">>
      [] tool = "scan_file" -> <<"newPage", "readFile", "setContent", "inject", "evaluate">>
      [] tool = "scan_with_login" ->
            <<"newPage", "gotoLogin", "typeUsername", "typePassword", "click",
              "clickAwait", "goto", "waitForNavigation", "inject", "evaluate">>
      [] tool = "scan_batch" -> <<"newPage", "goto", "inject", "evaluate", "closePage">>

StepsOf(tool) ==
    CASE tool = "scan_url" -> <<"newPage", "goto", "inject", "evaluate">>
      [] tool = "scan_html" -> <<"newPage", "setContent", "inject", "evaluate">>
      [] tool = "scan_file" -> <<"newPage", "readFile", "setContent", "inject", "evaluate">>
      [] tool = "scan_with_login" ->
            <<"newPage", "gotoLogin", "typeUsername", "typePassword", "click",
              "clickAwait", "waitForNavigation", "goto", "inject", "evaluate">>
      [] tool = "scan_batch" -> <<"newPage", "goto", "inject", "evaluate", "closePage">>

StepAfter(tool, step) ==
    LET steps == StepsOf(tool)
        i == CHOOSE k \in 1..Len(steps) : steps[k] = step
    IN steps[i + 1]

\* runAxeOnPage's options: tags?.length ? { runOnly: { type: "tag", values: tags } } : {}
RunOptions(runOnlyTags) ==
    LET tags == OrDefault(runOnlyTags, <<>>)
    IN IF Len(tags) > 0 THEN Some(tags) ELSE Absent

\* tagsFor({ ruleset: args.ruleset, level: args.level, extra: args.extraTags })
RequestTags_NoExtra(a) == tagsFor(Some([ruleset |-> a.ruleset, level |-> a.level, extra |-> Absent]))

RequestTags_OnlyExtra(a) == OrDefault(a.extraTags, <<>>)

RequestTags(a) == tagsFor(Some([ruleset |-> a.ruleset, level |-> a.level, extra |-> a.extraTags]))

\* The url the handler's goto at this position navigates to.
GotoTarget(c) ==
    LET a == req[c].args IN
    IF req[c].tool = "scan_batch" THEN Some(a.urls[1][idx[c]])
    ELSE IF pc[c] = "gotoLogin" THEN a.loginUrl
    ELSE a.url

----------------------------------------------------------------------------
(* Control flow of the handlers: try, catch and finally *)

\* An exception leaves the outer try block: the finally clause runs next.
ThrowToFinally_SkipClose(c, e) ==
    /\ response' = [response EXCEPT ![c] = Some(Thrown(e))]
    /\ pc' = [pc EXCEPT ![c] = "done"]
    /\ UNCHANGED <<out, idx, pending>>

ThrowToFinally(c, e) ==
    /\ pending' = [pending EXCEPT ![c] = Some(Thrown(e))]
    /\ pc' = [pc EXCEPT ![c] = "closeBrowser"]
    /\ UNCHANGED <<out, idx, response>>

\* scan_batch's catch clause: out.push({ url, error: String(e) }); then its
\* finally clause closes the page.
BatchCatch_SkipPageClose(c, e) ==
    LET entries == Append(out[c], [url |-> req[c].args.urls[1][idx[c]], results |-> Absent, error |-> Some(e)])
    IN /\ out' = [out EXCEPT ![c] = entries]
       /\ IF idx[c] + 1 <= Len(req[c].args.urls[1])
          THEN /\ pc' = [pc EXCEPT ![c] = "newPage"]
               /\ idx' = [idx EXCEPT ![c] = idx[c] + 1]
               /\ UNCHANGED <<pending, response>>
          ELSE /\ pc' = [pc EXCEPT ![c] = "closeBrowser"]
               /\ pending' = [pending EXCEPT ![c] = Some(Returned(entries))]
               /\ UNCHANGED <<idx, response>>

BatchCatch_DropEntry(c, e) ==
    /\ pc' = [pc EXCEPT ![c] = "closePage"]
    /\ UNCHANGED <<out, pending, idx, response>>

BatchCatch(c, e) ==
    /\ out' = [out EXCEPT ![c] =
                  Append(@, [url |-> req[c].args.urls[1][idx[c]], results |-> Absent, error |-> Some(e)])]
    /\ pc' = [pc EXCEPT ![c] = "closePage"]
    /\ UNCHANGED <<pending, idx, response>>

\* A step of the try block succeeded and another follows it.
Advance(c) ==
    /\ pc' = [pc EXCEPT ![c] = StepAfter(req[c].tool, pc[c])]
    /\ UNCHANGED <<out, pending, idx, response>>

InBatchTry(c) == req[c].tool = "scan_batch" /\ pc[c] \in {"goto", "inject", "evaluate"}

\* A step of the try block failed.
StepFails_Swallow(c, e) ==
    IF pc[c] = "evaluate" THEN ThrowToFinally(c, e) ELSE Advance(c)

StepFails(c, e) == IF InBatchTry(c) THEN BatchCatch(c, e) ELSE ThrowToFinally(c, e)

\* The for-of loop of scan_batch at position i: the next url, or the return
\* statement after the loop.
BatchLoop(c, i) ==
    IF i <= Len(req[c].args.urls[1])
    THEN /\ pc' = [pc EXCEPT ![c] = "newPage"]
         /\ idx' = [idx EXCEPT ![c] = i]
         /\ UNCHANGED <<out, pending, response>>
    ELSE /\ pc' = [pc EXCEPT ![c] = "closeBrowser"]
         /\ pending' = [pending EXCEPT ![c] = Some(Returned(out[c]))]
         /\ UNCHANGED <<out, idx, response>>

\* What axe.run yields: the violations of the document loaded in the page
\* under the options it was given.
AxeResults(p, options) == [document |-> pages[p].loaded, runOnly |-> options]

\* return { content: [{ type: "text", text: JSON.stringify(results) }] } in the
\* single-target handlers: the finally clause runs next.
ReturnResults(c, results) ==
    /\ pending' = [pending EXCEPT ![c] = Some(Returned(results))]
    /\ pc' = [pc EXCEPT ![c] = "closeBrowser"]
    /\ UNCHANGED <<out, idx, response>>

\* out.push({ url, results }) in scan_batch; its finally clause closes the page.
BatchPush(c, results) ==
    /\ out' = [out EXCEPT ![c] =
                  Append(@, [url |-> req[c].args.urls[1][idx[c]], results |-> Some(results), error |-> Absent])]
    /\ pc' = [pc EXCEPT ![c] = "closePage"]
    /\ UNCHANGED <<pending, idx, response>>

\* finally { await browser.close(); }: the completion of the try block stands
\* unless close itself throws.
FinallyCompletion(c, closeOk) ==
    IF closeOk THEN pending[c] ELSE Some(Thrown("browser.close"))

flowVars == <<pc, out, idx, pending, response>>

Logged(c, step, ok, a) == log' = [log EXCEPT ![c] = Append(@, LogEntry(step, ok, page[c], a))]

SetPage(c, f, v) == pages' = [pages EXCEPT ![page[c]][f] = v]

----------------------------------------------------------------------------
(* The handlers, one action per awaited step *)

\* The server parses the arguments against the tool's input schema and calls
\* the handler only when they are accepted.
Dispatch(c) ==
    /\ pc[c] = "received"
    /\ IF SchemaAccepts(req[c].tool, req[c].args)
       THEN /\ pc' = [pc EXCEPT ![c] = "launch"]
            /\ UNCHANGED response
       ELSE /\ pc' = [pc EXCEPT ![c] = "done"]
            /\ response' = [response EXCEPT ![c] = Some(Thrown("ValidationError"))]
    /\ UNCHANGED <<req, browser, page, idx, out, pending, browsers, pages, log, fnVars>>

\* const browser = await puppeteer.launch({ headless: true }), before the try
Launch(c) ==
    /\ pc[c] = "launch"
    /\ \E ok \in BOOLEAN :
        /\ Logged(c, "launch", ok, Absent)
        /\ IF ok
           THEN /\ browsers' = Append(browsers, Browser(c))
                /\ browser' = [browser EXCEPT ![c] = Len(browsers) + 1]
                /\ IF req[c].tool = "scan_batch"
                   THEN BatchLoop(c, 1)
                   ELSE /\ pc' = [pc EXCEPT ![c] = "newPage"]
                        /\ UNCHANGED <<out, idx, pending, response>>
           ELSE /\ response' = [response EXCEPT ![c] = Some(Thrown("launch"))]
                /\ pc' = [pc EXCEPT ![c] = "done"]
                /\ UNCHANGED <<browsers, browser, out, idx, pending>>
    /\ UNCHANGED <<req, page, pages, fnVars>>

\* const page = await browser.newPage(); in scan_batch it stands before the
\* inner try
NewPage(c) ==
    /\ pc[c] = "newPage"
    /\ \E ok \in BOOLEAN :
        /\ log' = [log EXCEPT ![c] =
                      Append(@, LogEntry("newPage", ok, IF ok THEN Len(pages) + 1 ELSE 0, Absent))]
        /\ IF ok
           THEN /\ pages' = Append(pages, Page(browser[c]))
                /\ page' = [page EXCEPT ![c] = Len(pages) + 1]
                /\ Advance(c)
           ELSE /\ ThrowToFinally(c, "newPage")
                /\ UNCHANGED <<pages, page>>
    /\ UNCHANGED <<req, browser, browsers, fnVars>>

\* await page.goto(url, { waitUntil: "networkidle2", timeout: 60000 })
Goto(c) ==
    /\ pc[c] \in {"goto", "gotoLogin"}
    /\ \E ok \in BOOLEAN :
        /\ GotoTarget(c) = Absent => ~ok
        /\ Logged(c, pc[c], ok, GotoTarget(c))
        /\ IF ok
           THEN /\ SetPage(c, "loaded", Some([kind |-> "url", src |-> GotoTarget(c)]))
                /\ Advance(c)
           ELSE /\ StepFails(c, pc[c])
                /\ UNCHANGED pages
    /\ UNCHANGED <<req, browser, page, browsers, fnVars>>

\* const html = await readFile(args.path, "utf-8")
ReadFile(c) ==
    /\ pc[c] = "readFile"
    /\ \E ok \in BOOLEAN :
        /\ Logged(c, "readFile", ok, req[c].args.path)
        /\ IF ok THEN Advance(c) ELSE StepFails(c, "readFile")
    /\ UNCHANGED <<req, browser, page, browsers, pages, fnVars>>

\* await page.setContent(html, { waitUntil: "domcontentloaded", timeout: 60000 })
ContentSource(c) == IF req[c].tool = "scan_file" THEN req[c].args.path ELSE req[c].args.html

SetContent(c) ==
    /\ pc[c] = "setContent"
    /\ \E ok \in BOOLEAN :
        /\ Logged(c, "setContent", ok, ContentSource(c))
        /\ IF ok
           THEN /\ SetPage(c, "loaded", Some([kind |-> req[c].tool, src |-> ContentSource(c)]))
                /\ Advance(c)
           ELSE /\ StepFails(c, "setContent")
                /\ UNCHANGED pages
    /\ UNCHANGED <<req, browser, page, browsers, fnVars>>

\* await page.type(args.usernameSelector, args.username);
\* await page.type(args.passwordSelector, args.password)
Type(c) ==
    /\ pc[c] \in {"typeUsername", "typePassword"}
    /\ \E ok \in BOOLEAN :
        /\ Logged(c, pc[c], ok, Absent)
        /\ IF ok THEN Advance(c) ELSE StepFails(c, pc[c])
    /\ UNCHANGED <<req, browser, page, browsers, pages, fnVars>>

\* page.click(args.submitSelector) reaches the browser: the click may start a
\* navigation of the page.
ClickIssue(c) ==
    /\ pc[c] = "click"
    /\ \E nav \in {"none", "inflight"} : SetPage(c, "nav", nav)
    /\ Advance(c)
    /\ UNCHANGED <<req, browser, page, browsers, log, fnVars>>

\* The browser finishes a navigation the page started; a waitForNavigation
\* registered by then sees it.
NavigationFinishes(p) ==
    /\ p \in 1..Len(pages)
    /\ pages[p].open
    /\ pages[p].nav = "inflight"
    /\ pages' = [pages EXCEPT ![p].nav = "finished", ![p].navSeen = pages[p].listening]
    /\ UNCHANGED <<req, browser, page, browsers, log, flowVars, fnVars>>

\* await page.click(...) resumes the handler, which calls
\* page.waitForNavigation({ waitUntil: "networkidle2", timeout: 60000 }):
\* the wait starts listening only now.
ClickReturn(c) ==
    /\ pc[c] = "clickAwait"
    /\ \E ok \in BOOLEAN :
        /\ Logged(c, "click", ok, Absent)
        /\ IF ok
           THEN /\ SetPage(c, "listening", TRUE)
                /\ Advance(c)
           ELSE /\ StepFails(c, "click")
                /\ UNCHANGED pages
    /\ UNCHANGED <<req, browser, page, browsers, fnVars>>

\* await page.waitForNavigation(...) resolves when a navigation finished while
\* it listened, and otherwise rejects when the timeout fires.
WaitForNavigation(c) ==
    /\ pc[c] = "waitForNavigation"
    /\ LET ok == pages[page[c]].navSeen IN
        /\ Logged(c, "waitForNavigation", ok, Some(pages[page[c]].nav))
        /\ SetPage(c, "listening", FALSE)
        /\ IF ok THEN Advance(c) ELSE StepFails(c, "waitForNavigation")
    /\ UNCHANGED <<req, browser, page, browsers, fnVars>>

\* runAxeOnPage: await page.addScriptTag({ content: axe.source })
Inject(c) ==
    /\ pc[c] = "inject"
    /\ \E ok \in BOOLEAN :
        /\ Logged(c, "inject", ok, Absent)
        /\ IF ok
           THEN /\ SetPage(c, "injected", pages[page[c]].injected + 1)
                /\ Advance(c)
           ELSE /\ StepFails(c, "inject")
                /\ UNCHANGED pages
    /\ UNCHANGED <<req, browser, page, browsers, fnVars>>

\* runAxeOnPage: await page.evaluate(..., runOnlyTags ?? []), then the
\* handler's return (or, in scan_batch, out.push)
Evaluate(c) ==
    /\ pc[c] = "evaluate"
    /\ LET options == RunOptions(Some(RequestTags(req[c].args))) IN
       \E ok \in BOOLEAN :
        \* axe is defined in the page only once the script was injected
        /\ ok => pages[page[c]].injected > 0
        /\ Logged(c, "evaluate", ok, options)
        /\ IF ok
           THEN /\ SetPage(c, "evaluated", pages[page[c]].evaluated + 1)
                /\ IF req[c].tool = "scan_batch"
                   THEN BatchPush(c, AxeResults(page[c], options))
                   ELSE ReturnResults(c, AxeResults(page[c], options))
           ELSE /\ StepFails(c, "evaluate")
                /\ UNCHANGED pages
    /\ UNCHANGED <<req, browser, page, browsers, fnVars>>

\* scan_batch's inner finally { await page.close(); }, then the next round of
\* the loop
ClosePage(c) ==
    /\ pc[c] = "closePage"
    /\ \E ok \in BOOLEAN :
        /\ Logged(c, "closePage", ok, Absent)
        /\ pages' = [pages EXCEPT ![page[c]].closeCalls = @ + 1,
                                  ![page[c]].open = IF ok THEN FALSE ELSE @]
        /\ IF ok THEN BatchLoop(c, idx[c] + 1) ELSE ThrowToFinally(c, "page.close")
    /\ UNCHANGED <<req, browser, page, browsers, fnVars>>

CloseBrowser_Shared(c) ==
    /\ pc[c] = "closeBrowser"
    /\ \E ok \in BOOLEAN :
        /\ Logged(c, "closeBrowser", ok, Absent)
        /\ browsers' = [b \in 1..Len(browsers) |->
                           [browsers[b] EXCEPT !.closeCalls = IF b = browser[c] THEN @ + 1 ELSE @,
                                               !.open = IF ok THEN FALSE ELSE @]]
        /\ pages' = [p \in 1..Len(pages) |->
                        IF ok THEN [pages[p] EXCEPT !.open = FALSE] ELSE pages[p]]
        /\ response' = [response EXCEPT ![c] = FinallyCompletion(c, ok)]
        /\ pc' = [pc EXCEPT ![c] = "done"]
    /\ UNCHANGED <<req, browser, page, idx, out, pending, fnVars>>

\* finally { await browser.close(); }: the caller then receives the completion
CloseBrowser(c) ==
    /\ pc[c] = "closeBrowser"
    /\ \E ok \in BOOLEAN :
        /\ Logged(c, "closeBrowser", ok, Absent)
        /\ browsers' = [browsers EXCEPT ![browser[c]].closeCalls = @ + 1,
                                        ![browser[c]].open = IF ok THEN FALSE ELSE @]
        /\ pages' = [p \in 1..Len(pages) |->
                        IF ok /\ pages[p].browser = browser[c]
                        THEN [pages[p] EXCEPT !.open = FALSE]
                        ELSE pages[p]]
        /\ response' = [response EXCEPT ![c] = FinallyCompletion(c, ok)]
        /\ pc' = [pc EXCEPT ![c] = "done"]
    /\ UNCHANGED <<req, browser, page, idx, out, pending, fnVars>>

----------------------------------------------------------------------------
(* The requests a caller may send *)

RulesetValues == Opt(Rulesets \cup {Str_wcag20})

LevelValues == Opt(Levels \cup {Str_aa})

ExtraTagsValues == {Absent, Some(<<Str_ACT>>)}

UrlValues == Opt(WellFormedUrls \cup {BadUrl})

WithOptions(a) ==
    {[a EXCEPT !.ruleset = r, !.level = l, !.extraTags = e] :
        r \in RulesetValues, l \in LevelValues, e \in ExtraTagsValues}

LoginStrings == {"username", "password", "usernameSelector", "passwordSelector", "submitSelector"}

\* scan_with_login arguments with every string present but those in `missing`
LoginArgs(url, loginUrl, missing) ==
    [NoArgs EXCEPT !.url = url, !.loginUrl = loginUrl,
        !.username = IF "username" \in missing THEN Absent ELSE Some("user"),
        !.password = IF "password" \in missing THEN Absent ELSE Some("secret"),
        !.usernameSelector = IF "usernameSelector" \in missing THEN Absent ELSE Some("#u"),
        !.passwordSelector = IF "passwordSelector" \in missing THEN Absent ELSE Some("#p"),
        !.submitSelector = IF "submitSelector" \in missing THEN Absent ELSE Some("#s")]

BaseArgs(tool) ==
    CASE tool = "scan_url" -> {[NoArgs EXCEPT !.url = u] : u \in UrlValues}
      [] tool = "scan_html" -> {[NoArgs EXCEPT !.html = h] : h \in Opt({"<img>"})}
      [] tool = "scan_file" -> {[NoArgs EXCEPT !.path = f] : f \in Opt({"/page.html"})}
      [] tool = "scan_batch" ->
            {[NoArgs EXCEPT !.urls = us] :
                us \in Opt(SeqsUpTo(WellFormedUrls \cup {BadUrl}, MaxUrls))}
      [] tool = "scan_with_login" ->
            {LoginArgs(u, l, m) : u \in UrlValues, l \in UrlValues,
                                  m \in {{}} \cup {{f} : f \in LoginStrings}}

Requests ==
    UNION {{[tool |-> t, args |-> a] : a \in UNION {WithOptions(b) : b \in BaseArgs(t)}} :
              t \in ScanTools}

----------------------------------------------------------------------------
(* Inputs of the pure functions and of summarize_results *)

TagPool ==
    {Str_wcag143, Str_wcag211, Str_WCAG143, Str_Wcag412, Str_wcag2aa,
     Str_wcag14, Str_wcag1433, Str_xwcag143, Str_foo, <<>>}

ExtraPool == {Str_foo, Str_ACT, Str_wcag22aa}

TagsForInputs ==
    {Absent} \cup
    {Some([ruleset |-> r, level |-> l, extra |-> e]) :
        r \in Opt(Rulesets), l \in Opt(Levels), e \in Opt(SeqsUpTo(ExtraPool, MaxExtra))}

ScFromTagsInputs == SeqsUpTo(TagPool, MaxTags)

Impacts == {"critical", "serious", "moderate", "minor"}

Violation(help, impact, tags, nodes) ==
    [help |-> help, impact |-> impact, tags |-> tags, nodes |-> nodes]

ViolationPool ==
    {Violation(h, Some(i), Some(<<Str_wcag143, Str_foo>>), Some(1)) :
        h \in {"h1", "h2"}, i \in Impacts}
    \cup {Violation("h1", Absent, Some(<<>>), Some(0)),
          Violation("h1", Some("critical"), Absent, Some(1)),
          Violation("h1", Some("moderate"), Absent, Some(1)),
          Violation("h1", Some("serious"), Some(<<>>), Absent),
          Violation("h1", Some("minor"), Some(<<>>), Absent)}

ScPool ==
    {<<"1", ".", "4", ".", "3">>, <<"2", ".", "1", ".", "1">>, <<"1", ".", "4", ".", "1", "1">>,
     <<"1", "4", "3">>, <<"1", ".", ".", "3">>, <<>>}

LinksInputs == {[sc |-> sc, prefer |-> p] : sc \in ScPool, p \in Opt(Rulesets)}

SummarizeInputs ==
    {Payload("unparsable", Absent), Payload("null", Absent), Payload("object", Absent)}
    \cup {Payload("object", Some(vs)) : vs \in SeqsUpTo(ViolationPool, MaxViolations)}

----------------------------------------------------------------------------
(* Applying a pure function or the synchronous handler to one input *)

Idle == "idle"

ScanIdle ==
    /\ req = [c \in CallIds |-> NoRequest]
    /\ pc = [c \in CallIds |-> Idle]
    /\ browser = [c \in CallIds |-> 0]
    /\ page = [c \in CallIds |-> 0]
    /\ idx = [c \in CallIds |-> 0]
    /\ out = [c \in CallIds |-> <<>>]
    /\ pending = [c \in CallIds |-> Absent]
    /\ response = [c \in CallIds |-> Absent]
    /\ browsers = <<>>
    /\ pages = <<>>
    /\ log = [c \in CallIds |-> <<>>]

InitFn ==
    /\ ScanIdle
    /\ ret = NotRun
    /\ \/ fn = "tagsFor" /\ arg \in TagsForInputs
       \/ fn = "wcagScFromTags" /\ arg \in ScFromTagsInputs
       \/ fn = "summarize_results" /\ arg \in SummarizeInputs
       \/ fn = "wcagLinks" /\ arg \in LinksInputs

Apply_tagsFor ==
    /\ fn = "tagsFor" /\ ret = NotRun
    /\ ret' = Some(tagsFor(arg))
    /\ UNCHANGED <<fn, arg, scanVars>>

Apply_wcagScFromTags ==
    /\ fn = "wcagScFromTags" /\ ret = NotRun
    /\ ret' = Some(wcagScFromTags(arg))
    /\ UNCHANGED <<fn, arg, scanVars>>

Apply_summarize_results ==
    /\ fn = "summarize_results" /\ ret = NotRun
    /\ ret' = Some(summarize_results(arg))
    /\ UNCHANGED <<fn, arg, scanVars>>

Apply_wcagLinks ==
    /\ fn = "wcagLinks" /\ ret = NotRun
    /\ ret' = Some(wcagLinks(arg.sc, arg.prefer))
    /\ UNCHANGED <<fn, arg, scanVars>>

NextFn == Apply_tagsFor \/ Apply_wcagScFromTags \/ Apply_summarize_results \/ Apply_wcagLinks

SpecFn == InitFn /\ [][NextFn]_vars

----------------------------------------------------------------------------
(* One tool call handled by the server *)

Init ==
    /\ \E r \in Requests : req = [c \in CallIds |-> IF c = 1 THEN r ELSE NoRequest]
    /\ pc = [c \in CallIds |-> IF c = 1 THEN "received" ELSE Idle]
    /\ browser = [c \in CallIds |-> 0]
    /\ page = [c \in CallIds |-> 0]
    /\ idx = [c \in CallIds |-> 0]
    /\ out = [c \in CallIds |-> <<>>]
    /\ pending = [c \in CallIds |-> Absent]
    /\ response = [c \in CallIds |-> Absent]
    /\ browsers = <<>>
    /\ pages = <<>>
    /\ log = [c \in CallIds |-> <<>>]
    /\ fn = "none" /\ arg = Absent /\ ret = NotRun

\* Two tool calls handled concurrently: their handlers interleave at every
\* await.
ConcurrentRequests(c) ==
    IF c = 1
    THEN {[tool |-> "scan_url", args |-> [NoArgs EXCEPT !.url = Some("https://a.test/")]],
          [tool |-> "scan_batch",
           args |-> [NoArgs EXCEPT !.urls = Some(<<"https://a.test/", "https://b.test/">>)]]}
    ELSE {[tool |-> "scan_with_login",
           args |-> LoginArgs(Some("https://b.test/"), Some("https://a.test/"), {})],
          [tool |-> "scan_file", args |-> [NoArgs EXCEPT !.path = Some("/page.html")]],
          [tool |-> "scan_url", args |-> [NoArgs EXCEPT !.url = Some("https://a.test/")]]}

InitConcurrent ==
    /\ req \in {r \in [CallIds -> Requests] : \A c \in CallIds : r[c] \in ConcurrentRequests(c)}
    /\ pc = [c \in CallIds |-> "received"]
    /\ browser = [c \in CallIds |-> 0]
    /\ page = [c \in CallIds |-> 0]
    /\ idx = [c \in CallIds |-> 0]
    /\ out = [c \in CallIds |-> <<>>]
    /\ pending = [c \in CallIds |-> Absent]
    /\ response = [c \in CallIds |-> Absent]
    /\ browsers = <<>>
    /\ pages = <<>>
    /\ log = [c \in CallIds |-> <<>>]
    /\ fn = "none" /\ arg = Absent /\ ret = NotRun

Next ==
    \/ \E c \in CallIds :
        \/ Dispatch(c)
        \/ Launch(c)
        \/ NewPage(c)
        \/ Goto(c)
        \/ ReadFile(c)
        \/ SetContent(c)
        \/ Type(c)
        \/ ClickIssue(c)
        \/ ClickReturn(c)
        \/ WaitForNavigation(c)
        \/ Inject(c)
        \/ Evaluate(c)
        \/ ClosePage(c)
        \/ CloseBrowser(c)
    \/ \E p \in 1..Len(pages) : NavigationFinishes(p)

Spec == Init /\ [][Next]_vars

SpecConcurrent == InitConcurrent /\ [][Next]_vars

----------------------------------------------------------------------------
(* Properties of the pure functions and of summarize_results *)

\* The base tag the specification's table gives for a ruleset and a level,
\* each defaulted when absent.
BaseTagTable(ruleset, level) ==
    LET r22 == ruleset \in {Absent, Some(wcag22)} IN
    IF level = Some(LevelA) THEN (IF r22 THEN Str_wcag22a ELSE Str_wcag21a)
    ELSE IF level = Some(LevelAAA) THEN (IF r22 THEN Str_wcag22aaa ELSE Str_wcag21aaa)
    ELSE (IF r22 THEN Str_wcag22aa ELSE Str_wcag21aa)

\* C6 (as claimed): wcagScFromTags returns, in input order and without
\* deduplication, one entry d1.d2.d3 per tag made of "wcag" in any letter case
\* followed by exactly three digits, and nothing else.
ClaimedScTag(t) ==
    /\ Len(t) = 7
    /\ \A i \in 1..4 : t[i] \in {wcagPrefix[i], UpperChars[CHOOSE k \in 1..26 : LowerChars[k] = wcagPrefix[i]]}
    /\ \A i \in 5..7 : t[i] \in Digits

ClaimedScIndices(tags) == {i \in 1..Len(tags) : ClaimedScTag(tags[i])}

\* The n-th smallest member of a set of indices.
NthOf(S, n) == CHOOSE j \in S : Cardinality({k \in S : k < j}) = n - 1

Ctr_C6_ScFromTagsAnyCase ==
    (fn = "wcagScFromTags" /\ ret # NotRun) =>
        LET ids == ret[1]
            S == ClaimedScIndices(arg)
        IN /\ Len(ids) = Cardinality(S)
           /\ \A n \in 1..Len(ids) :
                LET t == arg[NthOf(S, n)] IN ids[n] = <<t[5], ".", t[6], ".", t[7]>>

\* C7: on every payload it summarizes, summarize_results ranks exactly the
\* violations whose impact is critical or serious, in their order in the
\* violations sequence; no moderate or minor violation is ranked.
TopIndices(vs) == {i \in 1..Len(vs) : vs[i].impact \in {Some("critical"), Some("serious")}}

Thm_C7_RankedAreTopInOrder ==
    (fn = "summarize_results" /\ ret # NotRun /\ ret[1].kind = "text") =>
        LET vs == arg.violations[1]
            S == TopIndices(vs)
            issues == ret[1].issues
        IN /\ Len(issues) = Cardinality(S)
           /\ \A n \in 1..Len(issues) :
                /\ issues[n].help = vs[NthOf(S, n)].help
                /\ issues[n].impact = vs[NthOf(S, n)].impact
                /\ issues[n].impact \in {Some("critical"), Some("serious")}

Wit_C7_CriticalModerateSerious ==
    /\ fn = "summarize_results" /\ ret # NotRun /\ ret[1].kind = "text"
    /\ arg.violations # Absent
    /\ Len(arg.violations[1]) = 3
    /\ arg.violations[1][1].impact = Some("critical")
    /\ arg.violations[1][2].impact = Some("moderate")
    /\ arg.violations[1][3].impact = Some("serious")
    /\ Len(ret[1].issues) = 2
    /\ ret[1].issues[2].impact = Some("serious")

\* C8: the total summarize_results reports is the number of all violation
\* records, and the sentinel is rendered exactly when no violation is critical
\* or serious (then with no ranked issue), the empty sequence included.
Thm_C8_TotalAndSentinel ==
    (fn = "summarize_results" /\ ret # NotRun) =>
        /\ ret[1].kind = "text" =>
              LET vs == arg.violations[1] IN
              /\ ret[1].total = Len(vs)
              /\ ret[1].sentinel <=> (TopIndices(vs) = {})
              /\ ret[1].sentinel => ret[1].issues = <<>>
        /\ (arg.shape = "object" /\ arg.violations # Absent /\ TopIndices(arg.violations[1]) = {})
              => (ret[1].kind = "text" /\ ret[1].sentinel)

Wit_C8_SentinelWithMinorAndModerate ==
    /\ fn = "summarize_results" /\ ret # NotRun /\ ret[1].kind = "text"
    /\ ret[1].sentinel
    /\ ret[1].total = 2
    /\ arg.violations[1][1].impact = Some("minor")
    /\ arg.violations[1][2].impact = Some("moderate")

\* C9: tagsFor returns the base tag (the lowercase concatenation of ruleset,
\* default wcag22, and level, default AA) followed by the extra tags as given,
\* in order and with duplicates kept; with no argument it returns <<wcag22aa>>.
Thm_C9_TagsForBaseThenExtra ==
    (fn = "tagsFor" /\ ret # NotRun) =>
        LET tags == ret[1]
            extra == IF arg = Absent \/ arg[1].extra = Absent THEN <<>> ELSE arg[1].extra[1]
            ruleset == IF arg = Absent THEN Absent ELSE arg[1].ruleset
            level == IF arg = Absent THEN Absent ELSE arg[1].level
        IN /\ Len(tags) = 1 + Len(extra)
           /\ tags[1] = BaseTagTable(ruleset, level)
           /\ \A i \in 1..Len(extra) : tags[i + 1] = extra[i]
           /\ arg = Absent => tags = <<Str_wcag22aa>>

Wit_C9_Wcag21AAAWithDuplicateExtras ==
    /\ fn = "tagsFor" /\ ret # NotRun /\ arg # Absent
    /\ arg[1].ruleset = Some(wcag21)
    /\ arg[1].level = Some(LevelAAA)
    /\ arg[1].extra = Some(<<Str_ACT, Str_ACT>>)
    /\ ret[1] = <<Str_wcag21aaa, Str_ACT, Str_ACT>>

----------------------------------------------------------------------------
(* Properties of the scan handlers *)

Responded(c) == response[c] # Absent

IsBatch(c) == req[c].tool = "scan_batch"

FailedSteps(c, steps) == {k \in 1..Len(log[c]) : log[c][k].step \in steps /\ ~log[c][k].ok}

\* C1: whenever scan_batch returns a result for N urls, the result has exactly
\* N entries, entry i carries the i-th requested url, and each entry holds
\* exactly one of results and error, whichever targets failed.
Thm_C1_BatchOneEntryPerUrlInOrder ==
    \A c \in CallIds :
        (IsBatch(c) /\ Responded(c) /\ response[c][1].kind = "result") =>
            LET urls == req[c].args.urls[1]
                entries == response[c][1].value
            IN /\ Len(urls) >= 1
               /\ Len(entries) = Len(urls)
               /\ \A i \in 1..Len(entries) :
                    /\ entries[i].url = urls[i]
                    /\ (entries[i].results = Absent) # (entries[i].error = Absent)

Wit_C1_FirstFailsLastSucceeds ==
    \E c \in CallIds :
        /\ IsBatch(c) /\ Responded(c) /\ response[c][1].kind = "result"
        /\ Len(req[c].args.urls[1]) = 2
        /\ response[c][1].value[1].error # Absent
        /\ response[c][1].value[2].results # Absent

\* C2 (as claimed): once scan_batch has launched its browser, no failure of a
\* per-target step (newPage, goto, inject, evaluate, page.close) makes the call
\* fail: the loop runs to its end and the try block completes with the
\* entries recorded for every url.
Ctr_C2_BatchFailsOnlyOnLaunch ==
    \A c \in CallIds :
        (IsBatch(c) /\ browser[c] # 0 /\ pc[c] \in {"closeBrowser", "done"}) =>
            /\ pending[c] # Absent
            /\ pending[c][1].kind = "result"
            /\ Len(pending[c][1].value) = Len(req[c].args.urls[1])

\* C3: in every handler, once the browser is launched, browser.close is
\* invoked exactly once, as the last step before the caller receives the
\* result or error, whichever step failed; when that close succeeds the
\* browser and all its pages are closed.
Thm_C3_BrowserClosedOnEveryExit ==
    \A c \in CallIds :
        /\ (Responded(c) /\ browser[c] # 0) =>
              LET b == browsers[browser[c]]
                  last == log[c][Len(log[c])]
              IN /\ b.closeCalls = 1
                 /\ last.step = "closeBrowser"
                 /\ last.ok => (/\ ~b.open
                                /\ \A p \in 1..Len(pages) :
                                      pages[p].browser = browser[c] => ~pages[p].open)
        /\ (~Responded(c) /\ browser[c] # 0) => browsers[browser[c]].closeCalls = 0

Wit_C3_ClosedAfterFailedWait ==
    \E c \in CallIds :
        /\ req[c].tool = "scan_with_login"
        /\ Responded(c) /\ response[c][1].kind = "error"
        /\ FailedSteps(c, {"waitForNavigation"}) # {}
        /\ browsers[browser[c]].closeCalls = 1
        /\ ~browsers[browser[c]].open

\* What the operations' input table asks of a request: a required input is
\* absent, a url or loginUrl is no well-formed url, ruleset or level is outside
\* its enumeration, or urls is empty.
RequiredInputs(tool) ==
    CASE tool = "scan_url" -> {"url"}
      [] tool = "scan_html" -> {"html"}
      [] tool = "scan_file" -> {"path"}
      [] tool = "scan_batch" -> {"urls"}
      [] tool = "scan_with_login" -> {"url", "loginUrl"} \cup LoginStrings
      [] OTHER -> {}

MalformedPerTable(tool, a) ==
    \/ \E f \in RequiredInputs(tool) : a[f] = Absent
    \/ a.url # Absent /\ a.url[1] \notin WellFormedUrls
    \/ a.loginUrl # Absent /\ a.loginUrl[1] \notin WellFormedUrls
    \/ a.urls # Absent /\ (a.urls[1] = <<>> \/ \E i \in 1..Len(a.urls[1]) : a.urls[1][i] \notin WellFormedUrls)
    \/ a.ruleset \notin Opt({wcag22, wcag21})
    \/ a.level \notin Opt({LevelA, LevelAA, LevelAAA})

WellFormed(c) == req[c].tool \in ScanTools /\ ~MalformedPerTable(req[c].tool, req[c].args)

\* C4 (as claimed): for a well-formed request, what the caller receives is
\* what the steps inside the try block completed with, that result or that
\* same error, whether or not a close fails.
Ctr_C4_CloseNeverReplacesCompletion ==
    \A c \in CallIds :
        (WellFormed(c) /\ Responded(c) /\ pending[c] # Absent) => response[c] = pending[c]

\* C5 (as claimed): a request malformed against the operation's input table
\* never gets a browser launched.
Ctr_C5_MalformedNeverLaunches ==
    \A c \in CallIds :
        MalformedPerTable(req[c].tool, req[c].args) => browser[c] = 0

\* C10: the script is injected at most once into any page, and exactly once
\* into every page evaluated; an injection is attempted only right after the
\* page's target preparation (goto of the target, or setContent) succeeded; an
\* evaluation only after the injection into that page succeeded, and with the
\* run-only filter made of the base tag of the request's ruleset and level
\* followed by its extraTags.
ExpectedTags(a) ==
    <<BaseTagTable(a.ruleset, a.level)>> \o (IF a.extraTags = Absent THEN <<>> ELSE a.extraTags[1])

InjectionsInto(c, p) ==
    {k \in 1..Len(log[c]) : log[c][k].step = "inject" /\ log[c][k].page = p}

Thm_C10_InjectOnceThenEvaluateWithTags ==
    \A c \in CallIds :
        /\ \A p \in 1..Len(pages) :
              /\ pages[p].injected <= 1
              /\ Cardinality(InjectionsInto(c, p)) <= 1
              /\ pages[p].evaluated > 0 => pages[p].injected = 1
        /\ \A k \in 1..Len(log[c]) :
              /\ log[c][k].step = "inject" =>
                    /\ k > 1
                    /\ log[c][k - 1].step \in {"goto", "setContent"}
                    /\ log[c][k - 1].ok
                    /\ log[c][k - 1].page = log[c][k].page
                    /\ pages[log[c][k].page].loaded # Absent
              /\ log[c][k].step = "evaluate" =>
                    /\ k > 1
                    /\ log[c][k - 1].step = "inject"
                    /\ log[c][k - 1].ok
                    /\ log[c][k - 1].page = log[c][k].page
                    /\ log[c][k].arg = Some(ExpectedTags(req[c].args))

Wit_C10_TwoPagesEvaluated ==
    \E c \in CallIds :
        /\ IsBatch(c) /\ Responded(c)
        /\ req[c].args.extraTags # Absent
        /\ req[c].args.level = Some(LevelAAA)
        /\ Len(pages) = 2
        /\ \A p \in 1..2 : pages[p].evaluated = 1 /\ pages[p].injected = 1

\* The awaited steps of a call before its finally clause.
TryLog(c) ==
    IF log[c] # <<>> /\ log[c][Len(log[c])].step = "closeBrowser"
    THEN SubSeq(log[c], 1, Len(log[c]) - 1)
    ELSE log[c]

\* C11: scan_with_login performs launch, newPage, goto(loginUrl), type
\* username, type password, click, waitForNavigation, goto(url), inject,
\* evaluate in this order, each only after the one before it succeeded, all on
\* the one page it opened; the evaluation runs on the page the goto of the
\* target url loaded.
LoginOrder ==
    <<"launch", "newPage", "gotoLogin", "typeUsername", "typePassword", "click",
      "waitForNavigation", "goto", "inject", "evaluate">>

Thm_C11_LoginStepsInOrder ==
    \A c \in CallIds :
        req[c].tool = "scan_with_login" =>
            LET steps == TryLog(c) IN
            /\ Len(steps) <= Len(LoginOrder)
            /\ \A k \in 1..Len(steps) :
                  /\ steps[k].step = LoginOrder[k]
                  /\ k < Len(steps) => steps[k].ok
                  /\ k > 2 => steps[k].page = steps[2].page
                  /\ steps[k].step = "gotoLogin" => steps[k].arg = req[c].args.loginUrl
                  /\ steps[k].step = "goto" => steps[k].arg = req[c].args.url
                  /\ steps[k].step = "evaluate" =>
                        pages[steps[k].page].loaded = Some([kind |-> "url", src |-> req[c].args.url])

Wit_C11_LoginScanCompleted ==
    \E c \in CallIds :
        /\ req[c].tool = "scan_with_login"
        /\ Responded(c) /\ response[c][1].kind = "result"
        /\ Len(TryLog(c)) = Len(LoginOrder)
        /\ req[c].args.url # req[c].args.loginUrl

\* C12: in scan_url, scan_html, scan_file and scan_with_login a failed step is
\* the last step of the scan (only browser.close follows it), and the call
\* then ends with an error, never with a result.
SingleTargetTools == {"scan_url", "scan_html", "scan_file", "scan_with_login"}

Thm_C12_SingleTargetFailureIsFatal ==
    \A c \in CallIds :
        (req[c].tool \in SingleTargetTools /\ FailedSteps(c, Range(LoginOrder) \cup {"readFile", "setContent"}) # {}) =>
            /\ \A k \in FailedSteps(c, Range(LoginOrder) \cup {"readFile", "setContent"}) : k = Len(TryLog(c))
            /\ pc[c] \in {"closeBrowser", "done"}
            /\ pending[c] # Absent => pending[c][1].kind = "error"
            /\ Responded(c) => response[c][1].kind = "error"

Wit_C12_FileReadFailed ==
    \E c \in CallIds :
        /\ req[c].tool = "scan_file"
        /\ FailedSteps(c, {"readFile"}) # {}
        /\ Responded(c) /\ response[c][1].kind = "error"
        /\ response[c][1].error = "readFile"

\* C13: during scan_batch at most one page of the call is open at any time:
\* every page but the one of the current target has had page.close invoked
\* once and is closed, whether its target succeeded or failed; and when
\* browser.close is reached page.close has been invoked on every page opened
\* (a page is still open then only if its own close failed).
PagesOf(c) == {p \in 1..Len(pages) : browser[c] # 0 /\ pages[p].browser = browser[c]}

PageCloseFailed(c, p) ==
    \E k \in 1..Len(log[c]) :
        log[c][k].step = "closePage" /\ log[c][k].page = p /\ ~log[c][k].ok

Thm_C13_BatchOnePageAtATime ==
    \A c \in CallIds :
        IsBatch(c) =>
            /\ Cardinality({p \in PagesOf(c) : pages[p].open}) <= 1
            /\ \A p \in PagesOf(c) :
                  /\ p # page[c] => (pages[p].closeCalls = 1 /\ ~pages[p].open)
                  /\ pc[c] = "newPage" => (pages[p].closeCalls = 1 /\ ~pages[p].open)
                  /\ pc[c] \in {"closeBrowser", "done"} =>
                        /\ pages[p].closeCalls = 1
                        /\ pages[p].open => PageCloseFailed(c, p)
                  /\ pages[p].closeCalls <= 1

Wit_C13_FailedTargetPageClosedBeforeNext ==
    \E c \in CallIds :
        /\ IsBatch(c)
        /\ Cardinality(PagesOf(c)) = 2
        /\ FailedSteps(c, {"goto"}) # {}
        /\ \E k \in 1..Len(log[c]) : log[c][k].step = "evaluate" /\ log[c][k].ok
        /\ pc[c] = "closeBrowser"
        /\ \A p \in PagesOf(c) : pages[p].closeCalls = 1 /\ ~pages[p].open

\* Everything that belongs to one call: its handler's locals, its completion,
\* the browser it launched and the pages of that browser.
CallView(c) ==
    [req |-> req[c], pc |-> pc[c], idx |-> idx[c], out |-> out[c],
     pending |-> pending[c], response |-> response[c], log |-> log[c],
     browser |-> IF browser[c] = 0 THEN Absent ELSE Some(browsers[browser[c]]),
     pages |-> {<<p, pages[p]>> : p \in PagesOf(c)}]

OwnsItsSession(c) ==
    /\ browser[c] # 0 => (browser[c] \in 1..Len(browsers) /\ browsers[browser[c]].owner = c)
    /\ page[c] # 0 => page[c] \in PagesOf(c)
    /\ \A d \in CallIds \ {c} : browser[c] # 0 => browser[d] # browser[c]

\* C14: of two calls running concurrently each owns the browser it launched
\* and the pages of that browser, and no step (a success, a failure, a
\* timeout, a close) of one call changes anything of the other: its position,
\* its entries, its completion, its result, its browser or its pages.
Thm_C14_CallsDoNotInterfere ==
    [][/\ \A c \in CallIds : OwnsItsSession(c)'
       /\ \A c \in CallIds : \A d \in CallIds \ {c} :
              ~(CallView(c)' # CallView(c) /\ CallView(d)' # CallView(d))]_vars

Wit_C14_OneFailedWhileOtherScans ==
    \E c \in CallIds : \E d \in CallIds \ {c} :
        /\ Responded(c) /\ response[c][1].kind = "error"
        /\ browser[c] # 0 /\ ~browsers[browser[c]].open
        /\ pc[d] = "evaluate"
        /\ browsers[browser[d]].open
        /\ pages[page[d]].open

\* C15 (as claimed): summarize_results ends in an error whenever the payload
\* is no valid ScanResult: text that does not parse, a value without a
\* violations sequence, or a violations sequence with a record that lacks
\* impact, tags or nodes.
LacksFields(v) == v.impact = Absent \/ v.tags = Absent \/ v.nodes = Absent

InvalidScanResult(payload) ==
    \/ payload.shape # "object"
    \/ payload.violations = Absent
    \/ \E i \in 1..Len(payload.violations[1]) : LacksFields(payload.violations[1][i])

Ctr_C15_InvalidPayloadIsAnError ==
    (fn = "summarize_results" /\ ret # NotRun /\ InvalidScanResult(arg)) => ret[1].kind = "error"

\* C16: wcagLinks gives, with SPEC = WCAG22 for prefer wcag22 or absent and
\* WCAG21 for wcag21, spec https://www.w3.org/TR/SPEC/, quickref
\* https://www.w3.org/WAI/SPEC/quickref/# followed by the characters of the id
\* that are not dots, in order, and understanding
\* https://www.w3.org/WAI/SPEC/Understanding/ whatever the id.
NonDotIndices(sc) == {i \in 1..Len(sc) : sc[i] # "."}

Thm_C16_LinksPerSpecAndDotFreeId ==
    (fn = "wcagLinks" /\ ret # NotRun) =>
        LET links == ret[1]
            name == IF arg.prefer = Some(wcag21) THEN "WCAG21" ELSE "WCAG22"
            S == NonDotIndices(arg.sc)
        IN /\ links.spec = <<"https://www.w3.org/TR/", name, "/">>
           /\ links.understanding = <<"https://www.w3.org/WAI/", name, "/Understanding/">>
           /\ Len(links.quickref) = 3 + Cardinality(S)
           /\ SubSeq(links.quickref, 1, 3) = <<"https://www.w3.org/WAI/", name, "/quickref/#">>
           /\ \A n \in 1..Cardinality(S) : links.quickref[3 + n] = arg.sc[NthOf(S, n)]

Wit_C16_Links143Wcag21 ==
    /\ fn = "wcagLinks" /\ ret # NotRun
    /\ arg.sc = <<"1", ".", "4", ".", "3">>
    /\ arg.prefer = Some(wcag21)
    /\ ret[1].quickref = <<"https://www.w3.org/WAI/", "WCAG21", "/quickref/#", "1", "4", "3">>

\* C17 (as claimed): in scan_with_login, whenever the navigation the click
\* started has finished by the time waitForNavigation resolves, the wait
\* succeeds, also when the navigation finished before the wait was listening.
Ctr_C17_WaitSucceedsWhenNavigationFinished ==
    \A c \in CallIds :
        req[c].tool = "scan_with_login" =>
            \A k \in 1..Len(log[c]) :
                (log[c][k].step = "waitForNavigation" /\ log[c][k].arg = Some("finished"))
                    => log[c][k].ok

\* C18: in every scan handler the tags handed to the evaluation are not
\* empty and start with the base tag of the request's ruleset and level, so
\* the evaluation always runs with a run-only filter, whatever ruleset, level
\* and extraTags are supplied or omitted.
Thm_C18_EvaluationAlwaysFiltered ==
    \A c \in CallIds :
        \A k \in 1..Len(log[c]) :
            log[c][k].step = "evaluate" =>
                /\ req[c].tool \in ScanTools
                /\ log[c][k].arg # Absent
                /\ Len(log[c][k].arg[1]) >= 1
                /\ log[c][k].arg[1][1] = BaseTagTable(req[c].args.ruleset, req[c].args.level)

Wit_C18_AllOptionsOmitted ==
    \E c \in CallIds :
        /\ req[c].tool = "scan_html"
        /\ req[c].args.ruleset = Absent /\ req[c].args.level = Absent /\ req[c].args.extraTags = Absent
        /\ \E k \in 1..Len(log[c]) :
              log[c][k].step = "evaluate" /\ log[c][k].ok /\ log[c][k].arg = Some(<<Str_wcag22aa>>)

====
